---- MODULE Spec2Model ----
(***************************************************************************)
(* Model of LocaleLayout, the locale / authentication gated root layout    *)
(* of the site (app/[locale]/layout.tsx).  Several invocations run on one  *)
(* event loop: each is a chain of synchronous segments separated by its    *)
(* awaits (cookies(), params, getMessages()), and segments of different    *)
(* invocations interleave.  The console is the only object the invocations *)
(* have in common.                                                         *)
(***************************************************************************)
EXTENDS Integers, Sequences, FiniteSets, TLC

\* ------------------------------------------------------------------ bounds
NumRequests == 2

Requests == 1..NumRequests

\* ------------------------------------------------------- values of the model
\* The JavaScript value `undefined`, where it is read as a string.
Undefined == "undefined"

\* Name of the authentication cookie (imported from '@/middleware/auth').
AUTH_COOKIE_NAME == "auth"

\* A cookie of the jar that is not the authentication cookie.
OTHER_COOKIE_NAME == "theme"

CookieNames == {AUTH_COOKIE_NAME, OTHER_COOKIE_NAME}

\* cookieStore.get(name) yields { value } or undefined.
NoCookie == [present |-> FALSE, value |-> Undefined]

Cookie(v) == [present |-> TRUE, value |-> v]

\* Values an authentication cookie is seen with.
CookieValues == {"true", "TRUE", "1", ""}

\* The cookie jars of incoming requests.
CookieJars ==
    {[n \in CookieNames |-> IF n = AUTH_COOKIE_NAME THEN c ELSE NoCookie] :
        c \in {NoCookie} \cup {Cookie(v) : v \in CookieValues}}
    \cup {[n \in CookieNames |-> IF n = AUTH_COOKIE_NAME THEN NoCookie ELSE Cookie("true")]}

\* routing.locales of '@/i18n/config'.
locales == {"en", "es"}

\* Locale segments a request can carry.
RequestedLocales == locales \cup {"xx", "EN"}

\* Message bundles getMessages can resolve to.
Bundles == {"enMessages", "esMessages"}

\* Values getMessages can reject with: an Error, a string, null.
ErrorValue == [kind |-> "Error", name |-> "Error", message |-> "Cannot find module", stack |-> "Error: Cannot find module at getMessages"]

StringValue == [kind |-> "string", name |-> Undefined, message |-> Undefined, stack |-> Undefined]

NullValue == [kind |-> "null", name |-> Undefined, message |-> Undefined, stack |-> Undefined]

Thrown == {ErrorValue, StringValue, NullValue}

\* Reading a property of null or undefined throws a TypeError.
IsNullish(e) == e.kind = "null"

\* The children prop of invocation r (opaque to the layout).
Children(r) == <<"children", r>>

NoChildren == <<"children", 0>>

\* ---------------------------------------------------------------- outcomes
NoOutcome == [tag |-> "none", children |-> NoChildren, messages |-> Undefined, lang |-> Undefined]

\* notFound() of next/navigation: throws the not-found signal.
notFound == [tag |-> "NotFound", children |-> NoChildren, messages |-> Undefined, lang |-> Undefined]

\* return children
PassThrough(ch) == [tag |-> "PassThrough", children |-> ch, messages |-> Undefined, lang |-> Undefined]

\* Shell tagged with the default locale instead of the requested one.
Shell_DefaultLang(ch, messages, lang) == [tag |-> "Shell", children |-> ch, messages |-> messages, lang |-> "en"]

\* return <html lang={locale}> ... <NextIntlClientProvider messages={messages}> ... {children}
Shell(ch, messages, lang) == [tag |-> "Shell", children |-> ch, messages |-> messages, lang |-> lang]

\* A TypeError thrown inside the catch block leaves the function.
TypeErrorEscapes == [tag |-> "TypeError", children |-> NoChildren, messages |-> Undefined, lang |-> Undefined]

\* ------------------------------------------------------------------- state
VARIABLES
    pc,               \* position of each invocation
    cookieStore,      \* the jar cookies() resolved to
    isAuthenticated,  \* the local const of that name
    locale,           \* the locale params resolved to
    settled,          \* what getMessages settled with
    outcome,          \* what the invocation returned or threw
    cookieReads,      \* number of cookies() calls of the invocation
    loaderCalls,      \* number of getMessages() calls of the invocation
    console           \* console.error calls, in order

\* State of one use of the legacy translation function of the test harness.
VARIABLES
    tLocale,             \* the locale mockLocaleContext was created for
    customTranslations,  \* the overrides it was created with
    key,                 \* the key t is called with
    translated           \* what t returned

\* State of one mounted LatestNewsTable.
VARIABLES
    items,               \* the items prop
    visibleCount,        \* the useState value
    clicks               \* number of 'Load more' clicks handled

layoutVars == <<pc, cookieStore, isAuthenticated, locale, settled, outcome, cookieReads, loaderCalls, console>>

harnessVars == <<tLocale, customTranslations, key, translated>>

tableVars == <<items, visibleCount, clicks>>

vars == <<layoutVars, harnessVars, tableVars>>

\* Strings of the harness are sequences of symbols; "" is the empty sequence.
EmptyString == <<>>

\* JavaScript values the translation function handles.
UndefinedValue == [kind |-> "undefined", str |-> EmptyString, tree |-> "none", path |-> <<>>]

StringOf(s) == [kind |-> "string", str |-> s, tree |-> "none", path |-> <<>>]

FunctionOf(name) == [kind |-> "function", str |-> name, tree |-> "none", path |-> <<>>]

ObjectAt(tree, path) == [kind |-> "object", str |-> EmptyString, tree |-> tree, path |-> path]

\* No translation function in use.
HarnessIdle ==
    /\ tLocale = <<"en">>
    /\ customTranslations = <<>>
    /\ key = EmptyString
    /\ translated = UndefinedValue

\* No table mounted.
TableIdle ==
    /\ items = <<>>
    /\ visibleCount = 0
    /\ clicks = 0

NoJar == [n \in CookieNames |-> NoCookie]

NotSettled == [status |-> "pending", messages |-> Undefined, error |-> NullValue]

Resolved(m) == [status |-> "resolved", messages |-> m, error |-> NullValue]

Rejected(e) == [status |-> "rejected", messages |-> Undefined, error |-> e]

Init ==
    /\ pc = [r \in Requests |-> "Start"]
    /\ cookieStore = [r \in Requests |-> NoJar]
    /\ isAuthenticated = [r \in Requests |-> FALSE]
    /\ locale = [r \in Requests |-> Undefined]
    /\ settled = [r \in Requests |-> NotSettled]
    /\ outcome = [r \in Requests |-> NoOutcome]
    /\ cookieReads = [r \in Requests |-> 0]
    /\ loaderCalls = [r \in Requests |-> 0]
    /\ console = <<>>
    /\ HarnessIdle
    /\ TableIdle

\* ------------------------------------------------------------ LocaleLayout
\* AuthCheck taking any non-empty cookie value as authenticated.
AuthCheck_Truthy(authCookie) ==
    authCookie.present /\ authCookie.value # ""

\* authCookie?.value === 'true'
AuthCheck(authCookie) ==
    (IF authCookie.present THEN authCookie.value ELSE Undefined) = "true"

\* routing.locales.includes(locale)
ValidLocale(loc) == loc \in locales

\* Start with one more awaited call (headers()) ahead of cookies().
Start_ExtraAwait(r) ==
    /\ pc[r] = "Start"
    /\ pc' = [pc EXCEPT ![r] = "AwaitHeaders"]
    /\ cookieReads' = [cookieReads EXCEPT ![r] = @ + 1]
    /\ UNCHANGED <<cookieStore, isAuthenticated, locale, settled, outcome, loaderCalls, console>>

\* The framework invokes LocaleLayout; it runs up to `await cookies()`.
Start(r) ==
    /\ pc[r] = "Start"
    /\ pc' = [pc EXCEPT ![r] = "AwaitCookies"]
    /\ cookieReads' = [cookieReads EXCEPT ![r] = @ + 1]
    /\ UNCHANGED <<cookieStore, isAuthenticated, locale, settled, outcome, loaderCalls, console>>

\* CookiesResolve keeping isAuthenticated in one module-level variable.
CookiesResolve_Shared(r) ==
    /\ pc[r] = "AwaitCookies"
    /\ \E jar \in CookieJars :
          /\ cookieStore' = [cookieStore EXCEPT ![r] = jar]
          /\ isAuthenticated' = [q \in Requests |-> AuthCheck(jar[AUTH_COOKIE_NAME])]
    /\ pc' = [pc EXCEPT ![r] = "AwaitParams"]
    /\ UNCHANGED <<locale, settled, outcome, cookieReads, loaderCalls, console>>

\* cookies() resolves: read the cookie, compute isAuthenticated, `await params`.
CookiesResolve(r) ==
    /\ pc[r] = "AwaitCookies"
    /\ \E jar \in CookieJars :
          /\ cookieStore' = [cookieStore EXCEPT ![r] = jar]
          /\ isAuthenticated' = [isAuthenticated EXCEPT ![r] = AuthCheck(jar[AUTH_COOKIE_NAME])]
    /\ pc' = [pc EXCEPT ![r] = "AwaitParams"]
    /\ UNCHANGED <<locale, settled, outcome, cookieReads, loaderCalls, console>>

\* Branch with the authentication short-circuit ahead of the locale validation.
Branch_AuthFirst(loc, auth) ==
    IF auth THEN "children"
    ELSE IF ~ValidLocale(loc) THEN "notFound"
    ELSE "getMessages"

\* Branch without the authentication short-circuit.
Branch_NoShortCircuit(loc, auth) ==
    IF ~ValidLocale(loc) THEN "notFound"
    ELSE "getMessages"

\* The branch taken once the locale is known: notFound() for a locale outside
\* routing.locales, `return children` when authenticated, getMessages otherwise.
Branch(loc, auth) ==
    IF ~ValidLocale(loc) THEN "notFound"
    ELSE IF auth THEN "children"
    ELSE "getMessages"

\* ParamsResolve that also logs the rejected locale before notFound().
ParamsResolve_LogsInvalid(r) ==
    /\ pc[r] = "AwaitParams"
    /\ \E loc \in RequestedLocales :
          /\ locale' = [locale EXCEPT ![r] = loc]
          /\ CASE Branch(loc, isAuthenticated[r]) = "notFound" ->
                    /\ outcome' = [outcome EXCEPT ![r] = notFound]
                    /\ pc' = [pc EXCEPT ![r] = "Done"]
                    /\ console' = Append(console, [by |-> r, text |-> "Invalid locale:", arg |-> StringValue])
                    /\ UNCHANGED loaderCalls
               [] Branch(loc, isAuthenticated[r]) = "children" ->
                    /\ outcome' = [outcome EXCEPT ![r] = PassThrough(Children(r))]
                    /\ pc' = [pc EXCEPT ![r] = "Done"]
                    /\ UNCHANGED <<loaderCalls, console>>
               [] Branch(loc, isAuthenticated[r]) = "getMessages" ->
                    /\ loaderCalls' = [loaderCalls EXCEPT ![r] = @ + 1]
                    /\ pc' = [pc EXCEPT ![r] = "AwaitMessages"]
                    /\ UNCHANGED <<outcome, console>>
    /\ UNCHANGED <<cookieStore, isAuthenticated, settled, cookieReads>>

\* params resolves: validate the locale, branch on isAuthenticated, call getMessages.
ParamsResolve(r) ==
    /\ pc[r] = "AwaitParams"
    /\ \E loc \in RequestedLocales :
          /\ locale' = [locale EXCEPT ![r] = loc]
          /\ CASE Branch(loc, isAuthenticated[r]) = "notFound" ->
                    /\ outcome' = [outcome EXCEPT ![r] = notFound]
                    /\ pc' = [pc EXCEPT ![r] = "Done"]
                    /\ UNCHANGED loaderCalls
               [] Branch(loc, isAuthenticated[r]) = "children" ->
                    /\ outcome' = [outcome EXCEPT ![r] = PassThrough(Children(r))]
                    /\ pc' = [pc EXCEPT ![r] = "Done"]
                    /\ UNCHANGED loaderCalls
               [] Branch(loc, isAuthenticated[r]) = "getMessages" ->
                    /\ loaderCalls' = [loaderCalls EXCEPT ![r] = @ + 1]
                    /\ pc' = [pc EXCEPT ![r] = "AwaitMessages"]
                    /\ UNCHANGED outcome
    /\ UNCHANGED <<cookieStore, isAuthenticated, settled, cookieReads, console>>

\* getMessages resolves: return the shell.
MessagesResolve(r) ==
    /\ pc[r] = "AwaitMessages"
    /\ \E m \in Bundles :
          /\ settled' = [settled EXCEPT ![r] = Resolved(m)]
          /\ outcome' = [outcome EXCEPT ![r] = Shell(Children(r), m, locale[r])]
    /\ pc' = [pc EXCEPT ![r] = "Done"]
    /\ UNCHANGED <<cookieStore, isAuthenticated, locale, cookieReads, loaderCalls, console>>

\* console.error('... Error in LocaleLayout:', error)
ErrorEntry(r, e) == [by |-> r, text |-> "Error in LocaleLayout:", arg |-> e]

\* DetailsEntry without the stack.
DetailsEntry_NoStack(r, e) ==
    [by |-> r, text |-> "Error details:",
     arg |-> [kind |-> "object", name |-> e.name, message |-> e.message, stack |-> Undefined]]

\* console.error('... Error details:', { name, message, stack })
DetailsEntry(r, e) ==
    [by |-> r, text |-> "Error details:",
     arg |-> [kind |-> "object", name |-> e.name, message |-> e.message, stack |-> e.stack]]

\* getMessages rejects: the catch block.
MessagesReject(r) ==
    /\ pc[r] = "AwaitMessages"
    /\ \E e \in Thrown :
          /\ settled' = [settled EXCEPT ![r] = Rejected(e)]
          /\ IF IsNullish(e)
               THEN /\ console' = Append(console, ErrorEntry(r, e))
                    /\ outcome' = [outcome EXCEPT ![r] = TypeErrorEscapes]
               ELSE /\ console' = Append(Append(console, ErrorEntry(r, e)), DetailsEntry(r, e))
                    /\ outcome' = [outcome EXCEPT ![r] = notFound]
    /\ pc' = [pc EXCEPT ![r] = "Done"]
    /\ UNCHANGED <<cookieStore, isAuthenticated, locale, cookieReads, loaderCalls>>

LocaleLayout(r) ==
    \/ Start(r)
    \/ CookiesResolve(r)
    \/ ParamsResolve(r)
    \/ MessagesResolve(r)
    \/ MessagesReject(r)

Next ==
    /\ \E r \in Requests : LocaleLayout(r)
    /\ UNCHANGED <<harnessVars, tableVars>>

Spec == Init /\ [][Next]_vars

\* The event loop runs a continuation once the promise it awaits has settled,
\* and every awaited collaborator eventually settles.
Fairness ==
    \A r \in Requests :
        /\ WF_layoutVars(Start(r))
        /\ WF_layoutVars(CookiesResolve(r))
        /\ WF_layoutVars(ParamsResolve(r))
        /\ WF_layoutVars(MessagesResolve(r) \/ MessagesReject(r))

FairSpec == Spec /\ Fairness

\* ------------------------------------------- test harness: mockLocaleContext
\* Longest key t is called with, in symbols.
MaxKeyLen == 5

\* The separator of key.split('.').
Dot == "."

\* Symbols keys are written with: identifiers and the separator.
KeySymbols == {"home", "hero", "welcome", "constructor", Dot}

RECURSIVE StringsUpTo(_)
\* The strings of at most n symbols.
StringsUpTo(n) ==
    IF n = 0 THEN {EmptyString}
    ELSE LET shorter == StringsUpTo(n - 1)
         IN shorter \cup {Append(x, c) : x \in {y \in shorter : Len(y) = n - 1}, c \in KeySymbols}

Keys == StringsUpTo(MaxKeyLen)

\* Locales a context is created for.
HarnessLocales == {<<"en">>, <<"es">>, <<"fr">>, <<"constructor">>}

\* Overrides a context is created with: none, or one key given a text or "".
CustomTranslationSets ==
    {<<>>} \cup {k :> v : k \in {<<"home", Dot, "welcome">>, <<"hero">>, <<"home", Dot, "hero">>},
                        v \in {<<"Custom text">>, EmptyString}}

\* Properties every object inherits from Object.prototype.
ObjectPrototypeKeys == {<<"constructor">>}

\* en.json: leaves by path.
enMessages ==
    (<< <<"home">>, <<"welcome">> >> :> <<"Welcome to Todd">>)
    @@ (<< <<"home">>, <<"hero">>, <<"welcome">> >> :> <<"Grow with Todd">>)
    @@ (<< <<"welcome">> >> :> <<"Welcome">>)

\* es.json: leaves by path.
esMessages ==
    (<< <<"home">>, <<"welcome">> >> :> <<"Bienvenido a Todd">>)
    @@ (<< <<"home">>, <<"hero">>, <<"welcome">> >> :> <<"Crece con Todd">>)
    @@ (<< <<"welcome">> >> :> <<"Bienvenido">>)

\* The leaves of a message tree.
Leaves(tree) == IF tree = "es" THEN esMessages ELSE enMessages

IsProperPrefix(p, l) == Len(p) < Len(l) /\ SubSeq(l, 1, Len(p)) = p

\* value && ... : the truthiness of a value.
Truthy(v) == v.kind \in {"object", "function"} \/ (v.kind = "string" /\ v.str # EmptyString)

\* The own property seg of the object at path of tree.
OwnProperty(tree, path, seg) ==
    LET p == Append(path, seg)
    IN  IF p \in DOMAIN Leaves(tree) THEN StringOf(Leaves(tree)[p])
        ELSE IF \E l \in DOMAIN Leaves(tree) : IsProperPrefix(p, l) THEN ObjectAt(tree, p)
        ELSE UndefinedValue

\* obj[seg]: own properties first, then Object.prototype.
GetProperty(obj, seg) ==
    IF obj.kind = "object" /\ OwnProperty(obj.tree, obj.path, seg) # UndefinedValue
        THEN OwnProperty(obj.tree, obj.path, seg)
    ELSE IF obj.kind \in {"object", "function"} /\ seg \in ObjectPrototypeKeys
        THEN FunctionOf(seg)
    ELSE UndefinedValue

\* seg in obj
HasProperty(obj, seg) == GetProperty(obj, seg) # UndefinedValue

\* Index of the first separator of s, 0 when there is none.
IndexOfDot(s) ==
    IF \E i \in 1..Len(s) : s[i] = Dot
        THEN CHOOSE i \in 1..Len(s) : s[i] = Dot /\ \A j \in 1..(i - 1) : s[j] # Dot
        ELSE 0

RECURSIVE Split(_)
\* s.split('.')
Split(s) ==
    IF IndexOfDot(s) = 0 THEN <<s>>
    ELSE <<SubSeq(s, 1, IndexOfDot(s) - 1)>> \o Split(SubSeq(s, IndexOfDot(s) + 1, Len(s)))

RECURSIVE Join(_)
\* parts.join('.')
Join(parts) ==
    IF Len(parts) = 0 THEN EmptyString
    ELSE IF Len(parts) = 1 THEN parts[1]
    ELSE parts[1] \o <<Dot>> \o Join(Tail(parts))

\* messageMap[locale] || enMessages
getMessagesForLocale(loc) ==
    IF loc = <<"en">> THEN ObjectAt("en", <<>>)
    ELSE IF loc = <<"es">> THEN ObjectAt("es", <<>>)
    ELSE IF loc \in ObjectPrototypeKeys THEN FunctionOf(loc)
    ELSE ObjectAt("en", <<>>)

RECURSIVE Reduce(_, _)
\* The reduce of getNestedValue over the segments.
Reduce(current, segments) ==
    IF Len(segments) = 0 THEN current
    ELSE Reduce(IF Truthy(current) /\ current.kind = "object" /\ HasProperty(current, Head(segments))
                  THEN GetProperty(current, Head(segments))
                  ELSE UndefinedValue,
                Tail(segments))

getNestedValue(obj, k) == Reduce(obj, Split(k))

\* customTranslations[key]
CustomOf(custom, k) ==
    IF k \in DOMAIN custom THEN StringOf(custom[k])
    ELSE IF k \in ObjectPrototypeKeys THEN FunctionOf(k)
    ELSE UndefinedValue

\* The lookup of t in the message files, for a key of at least two parts.
MessageOf(actualMessages, parts) ==
    LET namespaceMessages == GetProperty(actualMessages, parts[1])
        messageKey == Join(Tail(parts))
    IN  IF Truthy(namespaceMessages) /\ namespaceMessages.kind = "object"
            THEN getNestedValue(namespaceMessages, messageKey)
            ELSE UndefinedValue

\* t(key) of mockLocaleContext(locale, customTranslations).
t(loc, custom, k) ==
    IF Truthy(CustomOf(custom, k)) THEN CustomOf(custom, k)
    ELSE IF Len(Split(k)) >= 2
              /\ Truthy(MessageOf(getMessagesForLocale(loc), Split(k)))
              /\ MessageOf(getMessagesForLocale(loc), Split(k)).kind = "string"
        THEN MessageOf(getMessagesForLocale(loc), Split(k))
    ELSE StringOf(k)

\* A context is created and t is about to be called with a key.
HarnessInit ==
    /\ tLocale \in HarnessLocales
    /\ customTranslations \in CustomTranslationSets
    /\ key \in Keys
    /\ translated = UndefinedValue
    /\ pc = [r \in Requests |-> "Idle"]
    /\ cookieStore = [r \in Requests |-> NoJar]
    /\ isAuthenticated = [r \in Requests |-> FALSE]
    /\ locale = [r \in Requests |-> Undefined]
    /\ settled = [r \in Requests |-> NotSettled]
    /\ outcome = [r \in Requests |-> NoOutcome]
    /\ cookieReads = [r \in Requests |-> 0]
    /\ loaderCalls = [r \in Requests |-> 0]
    /\ console = <<>>
    /\ TableIdle

\* The component under test calls t(key).
Translate ==
    /\ translated = UndefinedValue
    /\ translated' = t(tLocale, customTranslations, key)
    /\ UNCHANGED <<tLocale, customTranslations, key, layoutVars, tableVars>>

HarnessNext == Translate

HarnessSpec == HarnessInit /\ [][HarnessNext]_vars

\* ------------------------------------------------------- LatestNewsTable
\* Longest items list a table is mounted with.
MaxItems == 30

\* useState(3): the initial visible count.
InitialVisibleCount == 3

\* prev + 3: rows added by one 'Load more'.
LoadMoreStep == 3

Min(a, b) == IF a <= b THEN a ELSE b

\* s.slice(start, end): end is clipped to the length.
Slice(s, start, end) == SubSeq(s, start + 1, Min(end, Len(s)))

\* isAllShown with > in place of >=.
isAllShown_Strict(count, list) == count > Len(list)

\* const isAllShown = visibleCount >= items.length
isAllShown(count, list) == count >= Len(list)

\* The rows rendered: items.slice(0, visibleCount).map(...)
Rows == Slice(items, 0, visibleCount)

\* {!isAllShown && <div role="button" onClick={handleLoadMore}>}
LoadMoreOffered == ~isAllShown(visibleCount, items)

\* A table is mounted with a list of items.
TableInit ==
    /\ items \in {[i \in 1..n |-> i] : n \in 0..MaxItems}
    /\ visibleCount = InitialVisibleCount
    /\ clicks = 0
    /\ pc = [r \in Requests |-> "Idle"]
    /\ cookieStore = [r \in Requests |-> NoJar]
    /\ isAuthenticated = [r \in Requests |-> FALSE]
    /\ locale = [r \in Requests |-> Undefined]
    /\ settled = [r \in Requests |-> NotSettled]
    /\ outcome = [r \in Requests |-> NoOutcome]
    /\ cookieReads = [r \in Requests |-> 0]
    /\ loaderCalls = [r \in Requests |-> 0]
    /\ console = <<>>
    /\ HarnessIdle

\* A click on 'Load more': setVisibleCount((prev) => prev + 3) and the re-render.
handleLoadMore ==
    /\ LoadMoreOffered
    /\ visibleCount' = visibleCount + LoadMoreStep
    /\ clicks' = clicks + 1
    /\ UNCHANGED <<items, layoutVars, harnessVars>>

TableNext == handleLoadMore

\* The user keeps clicking 'Load more' as long as it is offered.
TableSpec == TableInit /\ [][TableNext]_vars /\ WF_tableVars(handleLoadMore)

\* LocaleLayout run on its own, as a function of what it reads: the outcome.
Alone(ch, jar, loc, s) ==
    IF ~ValidLocale(loc) THEN notFound
    ELSE IF AuthCheck(jar[AUTH_COOKIE_NAME]) THEN PassThrough(ch)
    ELSE IF s.status = "resolved" THEN Shell(ch, s.messages, loc)
    ELSE IF IsNullish(s.error) THEN TypeErrorEscapes
    ELSE notFound

\* LocaleLayout run on its own: the console.error calls it makes.
AloneLog(r, jar, loc, s) ==
    IF ~ValidLocale(loc) \/ AuthCheck(jar[AUTH_COOKIE_NAME]) \/ s.status # "rejected" THEN <<>>
    ELSE IF IsNullish(s.error) THEN <<ErrorEntry(r, s.error)>>
    ELSE <<ErrorEntry(r, s.error), DetailsEntry(r, s.error)>>

\* ================================================================== claims
Done(r) == pc[r] = "Done"

\* The console.error calls made by invocation r, in order.
LogOf(r) == SelectSeq(console, LAMBDA entry : entry.by = r)

\* The authentication cookie invocation r saw.
authCookie(r) == cookieStore[r][AUTH_COOKIE_NAME]

\* C1: a request whose locale is not in the supported set ends in NotFound,
\* whatever its authentication cookie is; never in PassThrough or Shell.
C1_UnsupportedLocaleNotFound ==
    \A r \in Requests :
        (pc[r] \notin {"Start", "AwaitCookies", "AwaitParams"} /\ locale[r] \notin locales)
            => /\ Done(r)
               /\ outcome[r] = notFound
               /\ outcome[r].tag \notin {"PassThrough", "Shell"}

C1_Witness ==
    \E r \in Requests :
        /\ Done(r)
        /\ locale[r] = "xx"
        /\ authCookie(r) = Cookie("true")
        /\ outcome[r] = notFound

\* C2: a request with a supported locale and authentication state true ends in
\* PassThrough with its children unchanged, and getMessages is never called.
C2_AuthenticatedPassThrough ==
    \A r \in Requests :
        (pc[r] \notin {"Start", "AwaitCookies", "AwaitParams"}
            /\ locale[r] \in locales /\ authCookie(r) = Cookie("true"))
            => /\ Done(r)
               /\ outcome[r].tag = "PassThrough"
               /\ outcome[r].children = Children(r)
               /\ loaderCalls[r] = 0
               /\ settled[r] = NotSettled

C2_Witness ==
    \E r \in Requests :
        /\ Done(r)
        /\ locale[r] = "es"
        /\ authCookie(r) = Cookie("true")
        /\ outcome[r] = PassThrough(Children(r))

\* C3: a request with a supported locale, authentication state false and a
\* bundle load that succeeds ends in Shell carrying exactly the bundle the
\* loader returned and exactly the requested locale; the locale of any Shell
\* outcome is a supported locale.
C3_ShellCarriesBundleAndLocale ==
    \A r \in Requests :
        /\ (Done(r) /\ locale[r] \in locales /\ ~isAuthenticated[r] /\ settled[r].status = "resolved")
              => /\ outcome[r].tag = "Shell"
                 /\ outcome[r].messages = settled[r].messages
                 /\ outcome[r].lang = locale[r]
                 /\ outcome[r].children = Children(r)
        /\ outcome[r].tag = "Shell" => outcome[r].lang \in locales

C3_Witness ==
    \E r \in Requests :
        /\ Done(r)
        /\ locale[r] = "es"
        /\ ~authCookie(r).present
        /\ settled[r] = Resolved("esMessages")
        /\ outcome[r] = Shell(Children(r), "esMessages", "es")

C5_AuthIffCookieIsTrue ==
    \A r \in Requests :
        pc[r] \notin {"Start", "AwaitCookies"}
            => /\ isAuthenticated[r] <=> (authCookie(r).present /\ authCookie(r).value = "true")
               /\ (pc[r] # "AwaitParams" /\ locale[r] \in locales
                     /\ ~(authCookie(r).present /\ authCookie(r).value = "true"))
                    => /\ loaderCalls[r] = 1
                       /\ outcome[r].tag # "PassThrough"

C5_Witness ==
    \E r \in Requests :
        /\ authCookie(r) = Cookie("TRUE")
        /\ locale[r] = "en"
        /\ loaderCalls[r] = 1
        /\ ~isAuthenticated[r]


\* C6: NotFound is the only error an invocation surfaces: whatever the locale,
\* the cookie and the loader result (any thrown value included), a finished
\* request ended in NotFound, PassThrough or Shell.
C6_OnlyNotFoundSurfaces ==
    \A r \in Requests :
        Done(r) => outcome[r].tag \in {"NotFound", "PassThrough", "Shell"}

\* C7: a log entry is produced only on a bundle-load failure: a request that
\* ends in NotFound for an unsupported locale, in PassThrough or in Shell has
\* written nothing to the console, and so has every request not yet finished.
C7_LogOnlyOnLoadFailure ==
    \A r \in Requests :
        /\ Len(LogOf(r)) > 0 => (Done(r) /\ settled[r].status = "rejected")
        /\ (Done(r) /\ (locale[r] \notin locales \/ outcome[r].tag \in {"PassThrough", "Shell"}))
              => LogOf(r) = <<>>

C7_Witness ==
    \E r, q \in Requests :
        /\ Done(r) /\ locale[r] = "xx" /\ outcome[r] = notFound /\ LogOf(r) = <<>>
        /\ Done(q) /\ settled[q].status = "rejected" /\ Len(LogOf(q)) > 0

\* The fields of invocation q.
Fields(q) == <<pc[q], cookieStore[q], isAuthenticated[q], locale[q], settled[q], outcome[q], cookieReads[q], loaderCalls[q], LogOf(q)>>

\* C8: invocations are independent: every step changes the fields of one
\* invocation only, and the outcome and the log entries of a finished
\* invocation are those it has when run alone on its own locale, cookie jar
\* and loader result.
C8_RequestsIndependent ==
    /\ [](\A r \in Requests :
            Done(r) => /\ outcome[r] = Alone(Children(r), cookieStore[r], locale[r], settled[r])
                       /\ LogOf(r) = AloneLog(r, cookieStore[r], locale[r], settled[r]))
    /\ [][\E r \in Requests : \A q \in Requests \ {r} : Fields(q)' = Fields(q)]_vars

C8_Witness ==
    \E r, q \in Requests :
        /\ Done(r) /\ authCookie(r) = Cookie("true") /\ locale[r] = "en"
        /\ outcome[r] = PassThrough(Children(r))
        /\ Done(q) /\ ~authCookie(q).present /\ locale[q] = "en"
        /\ outcome[q].tag = "Shell"

\* The stage of the decision sequence invocation r is in.
Stage(r) ==
    CASE pc[r] \in {"Start", "AwaitCookies", "AwaitParams"} -> "Start"
      [] pc[r] = "AwaitMessages" -> "LoadBundle"
      [] pc[r] = "Done" -> outcome[r].tag

\* C9: every request follows Start, ValidateLocale, then NotFound or CheckAuth,
\* then PassThrough or LoadBundle, then Shell or NotFound: an unsupported locale
\* ends the request whatever the authentication state, the authentication
\* branch is taken before any load starts, and getMessages is called only for
\* a supported locale with authentication state false.
C9_LinearSequence ==
    [][\A r \in Requests :
          /\ (Stage(r) = "Start" /\ Stage(r)' # "Start")
                => /\ Stage(r)' \in {"NotFound", "PassThrough", "LoadBundle"}
                   /\ Stage(r)' = "NotFound" <=> locale'[r] \notin locales
                   /\ Stage(r)' = "PassThrough" <=> (locale'[r] \in locales /\ isAuthenticated[r])
                   /\ Stage(r)' = "LoadBundle" <=> (locale'[r] \in locales /\ ~isAuthenticated[r])
          /\ (Stage(r) = "LoadBundle" /\ Stage(r)' # "LoadBundle")
                => Stage(r)' \in {"Shell", "NotFound"}
          /\ Stage(r) \in {"NotFound", "PassThrough", "Shell"} => Stage(r)' = Stage(r)
          /\ loaderCalls'[r] # loaderCalls[r]
                => (Stage(r) = "Start" /\ locale'[r] \in locales /\ ~isAuthenticated[r])
      ]_vars

\* Invocation r is in one of the three terminal states.
Terminal(r) == Done(r) /\ outcome[r].tag \in {"NotFound", "PassThrough", "Shell"}

\* C10: each request is evaluated once: it reads the cookie store at most once,
\* calls the loader at most once and, every awaited collaborator responding,
\* eventually reaches NotFound, PassThrough or Shell and stays there.
C10_EvaluatedOnce ==
    /\ [](\A r \in Requests : cookieReads[r] <= 1 /\ loaderCalls[r] <= 1)
    /\ [][\A r \in Requests : Terminal(r) => Terminal(r)']_vars
    /\ \A r \in Requests : (pc[r] = "AwaitCookies") ~> Terminal(r)

\* Invocation r is suspended at an await: it has started and not finished.
Suspended(r) == pc[r] \notin {"Start", "Done"}

\* Some invocation other than r takes the step.
OtherSteps(r) == \E q \in Requests \ {r} : Fields(q)' # Fields(q)

\* C11 as stated: another request interleaves with a request in flight only
\* while that request awaits the cookie store or the bundle load.
C11_TwoSuspensionPoints ==
    [][\A r \in Requests :
          (Suspended(r) /\ OtherSteps(r)) => pc[r] \in {"AwaitCookies", "AwaitMessages"}
      ]_vars

\* C11 as amended: a request is suspended, and another request interleaves
\* with it, only at the cookie store access, the read of params and the bundle
\* load, which it passes in that order.
C11_ThreeSuspensionPoints ==
    [][\A r \in Requests :
          /\ (Suspended(r) /\ OtherSteps(r))
                => pc[r] \in {"AwaitCookies", "AwaitParams", "AwaitMessages"}
          /\ pc'[r] # pc[r]
                => <<pc[r], pc'[r]>> \in {<<"Start", "AwaitCookies">>,
                                          <<"AwaitCookies", "AwaitParams">>,
                                          <<"AwaitParams", "AwaitMessages">>,
                                          <<"AwaitParams", "Done">>,
                                          <<"AwaitMessages", "Done">>}
      ]_vars

C11_Witness ==
    \E r, q \in Requests :
        /\ pc[r] = "AwaitParams" /\ cookieReads[r] = 1 /\ locale[r] = Undefined
        /\ pc[q] = "AwaitMessages" /\ loaderCalls[q] = 1

\* The message file the claim has t read for a locale: the locale's own for
\* en and es, the English one for any other.
FileOf(loc) == IF loc = <<"es">> THEN esMessages ELSE enMessages

\* C12: t returns the custom translation supplied for the key if there is one;
\* otherwise, for a key namespace.path that resolves to a string in the
\* locale's messages (the English ones outside en/es), that string; in every
\* other case the key itself.
C12_TranslationFunction ==
    translated # UndefinedValue =>
        IF key \in DOMAIN customTranslations
            THEN translated = StringOf(customTranslations[key])
        ELSE IF Len(Split(key)) >= 2 /\ Split(key) \in DOMAIN FileOf(tLocale)
            THEN translated = StringOf(FileOf(tLocale)[Split(key)])
        ELSE translated = StringOf(key)

\* C13: after k 'Load more' clicks on a list of n items the visible count is
\* 3 + 3k, min(3 + 3k, n) rows are displayed, and 'Load more' is offered exactly
\* when the visible count is below n; so the visible count never exceeds n + 2
\* (or stays 3 when n <= 3), and repeated clicking eventually shows all n rows,
\* after which no click is possible.
C13_LoadMore ==
    /\ [](/\ visibleCount = 3 + 3 * clicks
          /\ Len(Rows) = Min(3 + 3 * clicks, Len(items))
          /\ Rows = [i \in 1..Len(Rows) |-> items[i]]
          /\ LoadMoreOffered <=> visibleCount < Len(items)
          /\ (ENABLED handleLoadMore) <=> visibleCount < Len(items)
          /\ visibleCount <= Len(items) + 2 \/ (Len(items) <= 3 /\ visibleCount = 3))
    /\ <>[](Len(Rows) = Len(items) /\ ~LoadMoreOffered /\ ~ENABLED handleLoadMore)

C13_Witness ==
    /\ Len(items) = 7
    /\ clicks = 2
    /\ visibleCount = 9
    /\ Len(Rows) = 7
    /\ ~LoadMoreOffered

====
